---- MODULE Spec2Model ----
(***************************************************************************)
(* Model of AutoMeshtasticLogger (src/auto_meshtastic_logger.py): the node *)
(* lifecycle tracker (discovered / active / completed), one collection     *)
(* cycle (_collect_cycle_data) and the run loop (run) with its signal      *)
(* driven stop flag.                                                       *)
(*                                                                         *)
(* Time is a clock `now` counted in seconds.  Blocking calls into the      *)
(* radio CLI take a nondeterministic duration, time.sleep(n) takes n.      *)
(* Python dicts are functions whose DOMAIN is the key set.                 *)
(*                                                                         *)
(* SIGINT and SIGTERM are both routed to _signal_handler (lines 78-79), so *)
(* Python's default handler that raises KeyboardInterrupt is not installed *)
(* and the `except KeyboardInterrupt` branch (lines 326-328) is never      *)
(* entered; it is not modelled.                                            *)
(*                                                                         *)
(* UnifiedMeshtasticLogger (src/meshtastic_unified.py), the logger with    *)
(* the single-shot mode --once, is a second program of the repository; its *)
(* run loop is modelled by the Unified actions and run by SpecUnified.     *)
(***************************************************************************)
EXTENDS Integers, FiniteSets, Sequences, TLC

\* ---------------------------------------------------------------- bounds
Nodes == {"n1", "n2"}
MaxCycles == 2
MaxTime == 6
MaxStep == 1
Interval == 2
PlotInterval == 3

\* ------------------------------------------------------ program constants
ExceptPause == 5
SleepSlice == 1

VARIABLES
    pc,                     \* position of the main control flow in run()
    now,                    \* wall clock, datetime.now()
    args,                   \* parsed command line, fixed for the run
    stop_requested,
    discovered_nodes, active_nodes, completed_nodes,
    node_last_seen, node_telemetry_count, node_completion_time,
    total_cycles, total_telemetry_collected, total_traceroutes,
    tele_rows,              \* rows appended to telemetry.csv, per node
    trace_rows,             \* rows appended to traceroute.csv
    stats_json,             \* run_stats.json: NoFile, or the total_cycles
                            \* entry of the snapshot last written to it
    iter_reports,           \* the calls of _run_plotting made since the
                            \* current loop iteration began
    failed_reports,         \* those of them whose report process failed
    faults,                 \* may the report process and the write of
                            \* run_stats.json fail in this run
    \* locals of run() and _collect_cycle_data()
    next_plot_time, collected_data, current_nodes,
    telemetry_collected, traceroutes_collected, traceroute_hops, i,
    \* observation of the run, no influence on the control flow
    discovery_ok,           \* did run_cli succeed in the last discovery
    newly_completed,        \* newly_completed of the last completion update
    stop_at,                \* pc at which the stop flag was first set
    slices_after_stop,      \* sleep slices finished after the flag was set
    final_reports, final_saves

vars == <<pc, now, args, stop_requested,
          discovered_nodes, active_nodes, completed_nodes,
          node_last_seen, node_telemetry_count, node_completion_time,
          total_cycles, total_telemetry_collected, total_traceroutes,
          tele_rows, trace_rows, stats_json, iter_reports, failed_reports,
          faults,
          next_plot_time, collected_data, current_nodes,
          telemetry_collected, traceroutes_collected, traceroute_hops, i,
          discovery_ok, newly_completed, stop_at, slices_after_stop,
          final_reports, final_saves>>

registry == <<discovered_nodes, active_nodes, completed_nodes,
              node_last_seen, node_telemetry_count, node_completion_time>>
counters == <<total_cycles, total_telemetry_collected, total_traceroutes>>
storage == <<tele_rows, trace_rows, stats_json, iter_reports,
             failed_reports>>
locals == <<next_plot_time, collected_data, current_nodes,
            telemetry_collected, traceroutes_collected, traceroute_hops, i>>
observed == <<discovery_ok, newly_completed, stop_at, slices_after_stop,
              final_reports, final_saves>>

NoFile == -1
NoTime == "no_time"
EmptyDict == [n \in {} |-> 0]

\* dict.get(key, default)
Get(d, k, default) == IF k \in DOMAIN d THEN d[k] ELSE default

\* d[k] = v for every k of ks
PutAll(d, ks, v) == [x \in (DOMAIN d) \cup ks |-> IF x \in ks THEN v ELSE d[x]]

\* IncAll when the dict is rebuilt from the keys of ks alone
IncAllResets(d, ks) ==
    [x \in ks |-> Get(d, x, 0) + 1]

\* d[k] = d.get(k, 0) + 1 for every k of ks
IncAll(d, ks) ==
    [x \in (DOMAIN d) \cup ks |-> IF x \in ks THEN Get(d, x, 0) + 1 ELSE d[x]]

\* the values of --min-telemetry-count and --completion-timeout tried
MinTelemetryCounts == {1, 2}
CompletionTimeouts == {1, 2}

Args ==
    [min_telemetry_count : MinTelemetryCounts,
     completion_timeout : CompletionTimeouts,
     stop_when_all_complete : BOOLEAN,
     no_trace : BOOLEAN,
     plot_every_cycle : {FALSE},
     plot_on_completion : {TRUE},
     interval : {Interval},
     plot_interval : {PlotInterval}]

\* further command lines: a --min-telemetry-count of 0, which
\* type=int (line 360) accepts, and --plot-every-cycle
ArgsOptions ==
    [min_telemetry_count : {0, 1},
     completion_timeout : {1},
     stop_when_all_complete : {FALSE},
     no_trace : BOOLEAN,
     plot_every_cycle : BOOLEAN,
     plot_on_completion : {TRUE},
     interval : {Interval},
     plot_interval : {PlotInterval}]

\* the state after __init__ and before run(), for a command line of
\* `configs`
Start(configs) ==
    /\ pc = "run"
    /\ now = 0
    /\ args \in configs
    /\ stop_requested = FALSE
    /\ discovered_nodes = {}
    /\ active_nodes = {}
    /\ completed_nodes = {}
    /\ node_last_seen = EmptyDict
    /\ node_telemetry_count = EmptyDict
    /\ node_completion_time = EmptyDict
    /\ total_cycles = 0
    /\ total_telemetry_collected = 0
    /\ total_traceroutes = 0
    /\ tele_rows = [n \in Nodes |-> 0]
    /\ trace_rows = 0
    /\ stats_json = NoFile
    /\ iter_reports = {}
    /\ failed_reports = {}
    /\ next_plot_time = NoTime
    /\ collected_data = FALSE
    /\ current_nodes = {}
    /\ telemetry_collected = 0
    /\ traceroutes_collected = 0
    /\ traceroute_hops = 0
    /\ i = 0
    /\ discovery_ok = TRUE
    /\ newly_completed = {}
    /\ stop_at = "none"
    /\ slices_after_stop = 0
    /\ final_reports = 0
    /\ final_saves = 0

\* --------------------------------------------- UnifiedMeshtasticLogger
\* src/meshtastic_unified.py: the logger with the single-shot mode --once.
\* It is a program of its own; it is run by SpecUnified, and the
\* specifications of AutoMeshtasticLogger leave it as constructed.
MaxTries == 3
UnifiedSlices == 2

VARIABLES
    u_pc,                   \* position in main() / run()
    once,                   \* args.once
    u_stop_requested,       \* self.stop_requested
    total_tries,
    stats,                  \* cycles_completed and errors_encountered
    slice,                  \* slices slept in the inter-cycle sleep
    exit_status             \* what main() hands to sys.exit, or NoExit

unified == <<u_pc, once, u_stop_requested, total_tries, stats, slice,
             exit_status>>

NoExit == -1

\* the state after UnifiedMeshtasticLogger(args), lines 41-85, with
\* --once drawn from `onces`
StartUnified(onces) ==
    /\ u_pc = "run"
    /\ once \in onces
    /\ u_stop_requested = FALSE
    /\ total_tries = 0
    /\ stats = [cycles_completed |-> 0, errors_encountered |-> 0]
    /\ slice = 0
    /\ exit_status = NoExit

Init == Start(Args) /\ StartUnified({FALSE}) /\ faults = FALSE
InitOptions ==
    Start(ArgsOptions) /\ StartUnified({FALSE}) /\ faults = FALSE

\* ------------------------------------------------------------- reports
\* how the report process of line 277 can end: True for exit status 0
PlotOutcomes == IF faults THEN BOOLEAN ELSE {TRUE}

\* _run_plotting, lines 263-288, called for the report `kind`
RunPlotting(kind) ==
    \E ok \in PlotOutcomes :
        /\ iter_reports' = iter_reports \cup {kind}
        /\ failed_reports' = IF ok THEN failed_reports
                                    ELSE failed_reports \cup {kind}

\* PlottingRaises without the handlers of lines 281-288
PlottingRaisesUncaught(failed) == failed

\* does _run_plotting raise when the report has failed: CalledProcessError
\* and every other Exception are caught and logged, lines 281-288
PlottingRaises(failed) == FALSE

\* ------------------------------------------------------------ registry
\* DiscoverNodes with the completed_nodes test of line 131 left out
DiscoverNodesReactivates(nodes, t) ==
    /\ discovered_nodes' = discovered_nodes \cup (nodes \ discovered_nodes)
    /\ node_last_seen' = PutAll(node_last_seen, nodes, t)
    /\ active_nodes' = active_nodes \cup nodes

\* _discover_nodes, lines 121-132, for the discovery result `nodes`
\* obtained at time t: new ids join discovered_nodes, every id gets
\* node_last_seen = t, ids that are not completed join active_nodes.
DiscoverNodes(nodes, t) ==
    /\ discovered_nodes' = discovered_nodes \cup (nodes \ discovered_nodes)
    /\ node_last_seen' = PutAll(node_last_seen, nodes, t)
    /\ active_nodes' = active_nodes \cup (nodes \ completed_nodes)

\* CheckNodeCompletion with the sample count test of lines 148-150 left out
CheckNodeCompletionNoCount(node, current_time) ==
    /\ node \in DOMAIN node_last_seen
    /\ (current_time - node_last_seen[node]) > args.completion_timeout

\* _check_node_completion, lines 143-157
CheckNodeCompletion(node, current_time) ==
    LET min_telemetry == args.min_telemetry_count
        timeout == args.completion_timeout
        telemetry_count == Get(node_telemetry_count, node, 0)
        seen == node \in DOMAIN node_last_seen
    IN  IF telemetry_count < min_telemetry
        THEN FALSE
        ELSE IF seen /\ (current_time - node_last_seen[node]) > timeout
             THEN TRUE
             ELSE FALSE

\* UpdateNodeCompletionStatus with the assignment of line 167 left out
UpdateNodeCompletionStatusNoTime ==
    LET done == {node \in active_nodes : CheckNodeCompletion(node, now)}
    IN  /\ active_nodes' = active_nodes \ done
        /\ completed_nodes' = completed_nodes \cup done
        /\ node_completion_time' = node_completion_time
        /\ newly_completed' = done
        /\ IF done # {} /\ args.plot_on_completion
           THEN RunPlotting("completion")
           ELSE UNCHANGED <<iter_reports, failed_reports>>

\* UpdateNodeCompletionStatus when line 163 walks over every discovered
\* node instead of the active ones
UpdateNodeCompletionStatusAllNodes ==
    LET done == {node \in discovered_nodes : CheckNodeCompletion(node, now)}
    IN  /\ active_nodes' = active_nodes \ done
        /\ completed_nodes' = completed_nodes \cup done
        /\ node_completion_time' = PutAll(node_completion_time, done, now)
        /\ newly_completed' = done
        /\ IF done # {} /\ args.plot_on_completion
           THEN RunPlotting("completion")
           ELSE UNCHANGED <<iter_reports, failed_reports>>

\* UpdateNodeCompletionStatus with the call of lines 174-175 left out
UpdateNodeCompletionStatusNoReport ==
    LET done == {node \in active_nodes : CheckNodeCompletion(node, now)}
    IN  /\ active_nodes' = active_nodes \ done
        /\ completed_nodes' = completed_nodes \cup done
        /\ node_completion_time' = PutAll(node_completion_time, done, now)
        /\ newly_completed' = done
        /\ UNCHANGED <<iter_reports, failed_reports>>

\* _update_node_completion_status, lines 161-175
UpdateNodeCompletionStatus ==
    LET done == {node \in active_nodes : CheckNodeCompletion(node, now)}
    IN  /\ active_nodes' = active_nodes \ done
        /\ completed_nodes' = completed_nodes \cup done
        /\ node_completion_time' = PutAll(node_completion_time, done, now)
        /\ newly_completed' = done
        /\ IF done # {} /\ args.plot_on_completion
           THEN RunPlotting("completion")
           ELSE UNCHANGED <<iter_reports, failed_reports>>

\* the stats dict of _save_stats, lines 97-108
Snapshot ==
    [current_time |-> now,
     total_cycles |-> total_cycles,
     total_telemetry_collected |-> total_telemetry_collected,
     total_traceroutes |-> total_traceroutes,
     discovered_nodes |-> discovered_nodes,
     active_nodes |-> active_nodes,
     completed_nodes |-> completed_nodes,
     node_telemetry_counts |-> node_telemetry_count,
     node_completion_times |-> node_completion_time]

\* the registry and the run statistics held in memory
RegistryState ==
    [discovered_nodes |-> discovered_nodes,
     active_nodes |-> active_nodes,
     completed_nodes |-> completed_nodes,
     node_last_seen |-> node_last_seen,
     node_telemetry_count |-> node_telemetry_count,
     node_completion_time |-> node_completion_time,
     total_cycles |-> total_cycles,
     total_telemetry_collected |-> total_telemetry_collected,
     total_traceroutes |-> total_traceroutes]

\* restore(snapshot) of the specification; the program has no code that
\* reads run_stats.json back.  Every field of the document goes back to
\* the attribute it was taken from; the document has no field for
\* node_last_seen, which stays as __init__ leaves it.
Restore(snap) ==
    [discovered_nodes |-> snap.discovered_nodes,
     active_nodes |-> snap.active_nodes,
     completed_nodes |-> snap.completed_nodes,
     node_last_seen |-> EmptyDict,
     node_telemetry_count |-> snap.node_telemetry_counts,
     node_completion_time |-> snap.node_completion_times,
     total_cycles |-> snap.total_cycles,
     total_telemetry_collected |-> snap.total_telemetry_collected,
     total_traceroutes |-> snap.total_traceroutes]

\* run_stats.json after a write that failed part-way: open(..., 'w') has
\* truncated it and json.dump has not finished
Corrupt == -2

\* how the write of lines 111-112 can end: True when it went through
\* (computed as a set of its own, apart from PlotOutcomes)
SaveOutcomes == {ok \in BOOLEAN : faults \/ ok}

\* _save_stats, lines 95-114.  The file is identified by the total_cycles
\* entry of the snapshot written to it; a write that fails leaves the old
\* file (open failed) or a corrupt one.
SaveStats ==
    \E ok \in SaveOutcomes :
        stats_json' \in IF ok THEN {Snapshot.total_cycles}
                              ELSE {stats_json, Corrupt}

\* SaveStatsRaises without the handler of lines 113-114
SaveStatsRaisesUncaught(failed) == failed

\* does _save_stats raise when the write has failed: every Exception of
\* the write is caught and logged, lines 113-114
SaveStatsRaises(failed) == FALSE

\* ---------------------------------------------------------- traceroute
\* what collect_traceroute_cli returns for one destination: a dict with
\* the keys "forward" and "back", at least one of them non-empty
HopLists == {<<>>, <<"hop">>}
TracerouteResults ==
    {r \in [forward : HopLists, back : HopLists] :
        r.forward # <<>> \/ r.back # <<>>}

\* the number of hop entries, forward and back, in the result of
\* collect_traceroute_batch: the rows that lines 239-250 are to write
RECURSIVE HopCount(_)
HopCount(traceroute_data) ==
    IF DOMAIN traceroute_data = {} THEN 0
    ELSE LET dest == CHOOSE d \in DOMAIN traceroute_data : TRUE
             rest == [d \in DOMAIN traceroute_data \ {dest} |->
                         traceroute_data[d]]
         IN  Len(traceroute_data[dest].forward)
             + Len(traceroute_data[dest].back) + HopCount(rest)

\* `for trace in traces` over a dict yields its keys
IterTraces(traces) == DOMAIN traces

\* trace.get(...) exists on dicts, not on the str keys that are iterated
HasGet(trace) == trace \notin STRING

\* lines 239-250: does logging traceroute_data raise AttributeError
LogTracerouteRaises(traceroute_data) ==
    \E dest \in DOMAIN traceroute_data :
        \E trace \in IterTraces(traceroute_data[dest]) : ~HasGet(trace)

\* -------------------------------------------------------------- actions
\* the part of run() a position belongs to
InCycle == {"discover", "telemetry", "traceroute", "completion", "save_stats"}
InSleep == {"sleep_check", "sleeping"}
Phase(p) == IF p \in InCycle \cup InSleep THEN p ELSE "other"

\* SignalHandler when a second signal takes the request back
SignalHandlerToggles ==
    /\ pc # "stopped"
    /\ stop_requested' = ~stop_requested
    /\ stop_at' = IF stop_requested THEN stop_at ELSE Phase(pc)
    /\ UNCHANGED <<pc, now, args, registry, counters, storage, locals,
                   discovery_ok, newly_completed, slices_after_stop,
                   final_reports, final_saves>>
    /\ UNCHANGED <<unified, faults>>

\* _signal_handler
SignalHandler ==
    /\ pc # "stopped"
    /\ stop_requested' = TRUE
    /\ stop_at' = IF stop_requested THEN stop_at ELSE Phase(pc)
    /\ UNCHANGED <<pc, now, args, registry, counters, storage, locals,
                   discovery_ok, newly_completed, slices_after_stop,
                   final_reports, final_saves>>
    /\ UNCHANGED <<unified, faults>>

\* run, line 296
RunStart ==
    /\ pc = "run"
    /\ next_plot_time' = now + args.plot_interval
    /\ pc' = "while"
    /\ UNCHANGED <<now, args, stop_requested, registry, counters, storage,
                   collected_data, current_nodes, telemetry_collected,
                   traceroutes_collected, traceroute_hops, i, observed>>
    /\ UNCHANGED <<unified, faults>>

\* run, line 298: while not self.stop_requested.  Entering the body
\* begins a new loop iteration.
WhileTest ==
    /\ pc = "while"
    /\ IF stop_requested
       THEN /\ pc' = "final_plot"
            /\ UNCHANGED <<iter_reports, failed_reports>>
       ELSE /\ total_cycles < MaxCycles
            /\ pc' = "discover"
            /\ iter_reports' = {}
            /\ failed_reports' = {}
    /\ UNCHANGED <<now, args, stop_requested, registry, counters,
                   tele_rows, trace_rows, stats_json, locals, observed>>
    /\ UNCHANGED <<unified, faults>>

\* DiscoverStep when the failure of run_cli is not turned into an empty list
DiscoverStepIgnoresFailure ==
    /\ pc = "discover"
    /\ \E ok \in BOOLEAN, found \in SUBSET Nodes :
        LET nodes == found
        IN  /\ total_cycles' = total_cycles + 1
            /\ discovery_ok' = ok
            /\ DiscoverNodes(nodes, now)
            /\ current_nodes' = nodes
            /\ IF nodes = {}
               THEN /\ collected_data' = FALSE
                    /\ pc' = "after_cycle"
               ELSE /\ collected_data' = collected_data
                    /\ pc' = "telemetry"
    /\ UNCHANGED <<now, args, stop_requested, completed_nodes,
                   node_telemetry_count, node_completion_time,
                   total_telemetry_collected, total_traceroutes, storage,
                   next_plot_time, telemetry_collected,
                   traceroutes_collected, traceroute_hops, i,
                   newly_completed, stop_at,
                   slices_after_stop, final_reports, final_saves>>
    /\ UNCHANGED <<unified, faults>>

\* _collect_cycle_data, lines 182-191.  The time discover_all_nodes takes
\* lies before current_time is read (line 128) and is part of the time
\* that passed since the previous step.
DiscoverStep ==
    /\ pc = "discover"
    /\ \E ok \in BOOLEAN, found \in SUBSET Nodes :
        LET nodes == IF ok THEN found ELSE {}
        IN  /\ total_cycles' = total_cycles + 1
            /\ discovery_ok' = ok
            /\ DiscoverNodes(nodes, now)
            /\ current_nodes' = nodes
            /\ IF nodes = {}
               THEN /\ collected_data' = FALSE
                    /\ pc' = "after_cycle"
               ELSE /\ collected_data' = collected_data
                    /\ pc' = "telemetry"
    /\ UNCHANGED <<now, args, stop_requested, completed_nodes,
                   node_telemetry_count, node_completion_time,
                   total_telemetry_collected, total_traceroutes, storage,
                   next_plot_time, telemetry_collected,
                   traceroutes_collected, traceroute_hops, i,
                   newly_completed, stop_at,
                   slices_after_stop, final_reports, final_saves>>
    /\ UNCHANGED <<unified, faults>>

\* CollectTelemetry when a pending stop request cuts the cycle short
CollectTelemetryAbortsOnStop ==
    /\ pc = "telemetry"
    /\ stop_requested
    /\ pc' = "while"
    /\ UNCHANGED <<now, args, stop_requested, registry, counters, storage,
                   locals, observed>>
    /\ UNCHANGED <<unified, faults>>

\* collect_telemetry_batch returning data for ids that were not requested
CollectTelemetryBatchAnyNode(node_ids) == SUBSET Nodes

\* collect_telemetry_batch, core/telemetry.py lines 228-239: the possible
\* key sets of the result, the requested ids whose telemetry was obtained
CollectTelemetryBatch(node_ids) == SUBSET node_ids

\* _collect_cycle_data, lines 193-230
CollectTelemetry ==
    /\ pc = "telemetry"
    /\ \E d \in 0..MaxStep,
          telemetry_data \in CollectTelemetryBatch(current_nodes) :
        /\ now + d <= MaxTime
        /\ now' = now + d
        /\ tele_rows' = [n \in Nodes |->
                            IF n \in telemetry_data
                            THEN tele_rows[n] + 1 ELSE tele_rows[n]]
        /\ node_telemetry_count' = IncAll(node_telemetry_count, telemetry_data)
        /\ telemetry_collected' = Cardinality(telemetry_data)
        /\ total_telemetry_collected' =
               total_telemetry_collected + Cardinality(telemetry_data)
    /\ pc' = "traceroute"
    /\ UNCHANGED <<args, stop_requested, discovered_nodes, active_nodes,
                   completed_nodes, node_last_seen, node_completion_time,
                   total_cycles, total_traceroutes, trace_rows, stats_json,
                   iter_reports, failed_reports, next_plot_time,
                   collected_data, current_nodes,
                   traceroutes_collected, traceroute_hops, i, observed>>
    /\ UNCHANGED <<unified, faults>>

\* _collect_cycle_data, lines 232-253
CollectTraceroute ==
    /\ pc = "traceroute"
    /\ IF args.no_trace
       THEN /\ traceroutes_collected' = 0
            /\ traceroute_hops' = 0
            /\ pc' = "completion"
            /\ UNCHANGED <<now, current_nodes, telemetry_collected>>
       ELSE \E d \in 0..MaxStep, dests \in SUBSET current_nodes :
            \E traceroute_data \in [dests -> TracerouteResults] :
                /\ now + d <= MaxTime
                /\ now' = now + d
                /\ IF LogTracerouteRaises(traceroute_data)
                   THEN pc' = "except"
                   ELSE pc' = "completion"
                /\ traceroutes_collected' = 0
                /\ traceroute_hops' = HopCount(traceroute_data)
                /\ UNCHANGED <<current_nodes, telemetry_collected>>
    /\ UNCHANGED <<args, stop_requested, registry, counters, storage,
                   next_plot_time, collected_data, i, observed>>
    /\ UNCHANGED <<unified, faults>>

\* _collect_cycle_data, lines 255-256
UpdateCompletion ==
    /\ pc = "completion"
    /\ UpdateNodeCompletionStatus
    /\ pc' = IF PlottingRaises("completion" \in failed_reports')
             THEN "except" ELSE "save_stats"
    /\ UNCHANGED <<now, args, stop_requested, discovered_nodes,
                   node_last_seen, node_telemetry_count, counters,
                   tele_rows, trace_rows, stats_json, locals, discovery_ok,
                   stop_at, slices_after_stop, final_reports, final_saves>>
    /\ UNCHANGED <<unified, faults>>

\* _collect_cycle_data, lines 258-261
SaveStatsStep ==
    /\ pc = "save_stats"
    /\ SaveStats
    /\ collected_data' = (telemetry_collected > 0 \/ traceroutes_collected > 0)
    /\ current_nodes' = {}
    /\ telemetry_collected' = 0
    /\ traceroutes_collected' = 0
    /\ traceroute_hops' = 0
    /\ pc' = IF SaveStatsRaises(stats_json' # total_cycles)
             THEN "except" ELSE "after_cycle"
    /\ UNCHANGED <<now, args, stop_requested, registry, counters,
                   tele_rows, trace_rows, iter_reports, failed_reports,
                   next_plot_time, i,
                   observed>>
    /\ UNCHANGED <<unified, faults>>

\* AfterCycle with the stop_when_all_complete test of lines 315-317 left out
AfterCycleNeverStops ==
    /\ pc = "after_cycle"
    /\ IF now >= next_plot_time \/ (collected_data /\ args.plot_every_cycle)
       THEN /\ RunPlotting("loop")
            /\ next_plot_time' = now + args.plot_interval
       ELSE UNCHANGED <<iter_reports, failed_reports, next_plot_time>>
    /\ pc' = "sleep_check"
    /\ i' = 0
    /\ current_nodes' = {}
    /\ discovery_ok' = TRUE
    /\ newly_completed' = {}
    /\ UNCHANGED <<now, args, stop_requested, registry, counters,
                   tele_rows, trace_rows, stats_json, collected_data,
                   telemetry_collected, traceroutes_collected,
                   traceroute_hops, stop_at,
                   slices_after_stop, final_reports, final_saves>>
    /\ UNCHANGED <<unified, faults>>

\* run, lines 303-317
AfterCycle ==
    /\ pc = "after_cycle"
    /\ IF now >= next_plot_time \/ (collected_data /\ args.plot_every_cycle)
       THEN /\ RunPlotting("loop")
            /\ next_plot_time' = now + args.plot_interval
       ELSE UNCHANGED <<iter_reports, failed_reports, next_plot_time>>
    /\ IF PlottingRaises("loop" \in failed_reports')
       THEN pc' = "except"
       ELSE IF /\ args.stop_when_all_complete
               /\ Cardinality(active_nodes) = 0
               /\ Cardinality(completed_nodes) > 0
            THEN pc' = "final_plot"
            ELSE pc' = "sleep_check"
    /\ i' = 0
    /\ current_nodes' = {}
    /\ discovery_ok' = TRUE
    /\ newly_completed' = {}
    /\ UNCHANGED <<now, args, stop_requested, registry, counters,
                   tele_rows, trace_rows, stats_json, collected_data,
                   telemetry_collected, traceroutes_collected,
                   traceroute_hops, stop_at,
                   slices_after_stop, final_reports, final_saves>>
    /\ UNCHANGED <<unified, faults>>

\* SleepCheck with the stop_requested test of lines 322-323 left out
SleepCheckIgnoresStop ==
    /\ pc = "sleep_check"
    /\ IF i < args.interval
       THEN pc' = "sleeping"
       ELSE pc' = "while"
    /\ UNCHANGED <<now, args, stop_requested, registry, counters, storage,
                   locals, observed>>
    /\ UNCHANGED <<unified, faults>>

\* run, lines 321-323: loop head of the sliced sleep and its flag test
SleepCheck ==
    /\ pc = "sleep_check"
    /\ IF i < args.interval /\ ~stop_requested
       THEN pc' = "sleeping"
       ELSE pc' = "while"
    /\ UNCHANGED <<now, args, stop_requested, registry, counters, storage,
                   locals, observed>>
    /\ UNCHANGED <<unified, faults>>

\* run, line 324: time.sleep(1)
Sleep ==
    /\ pc = "sleeping"
    /\ now + SleepSlice <= MaxTime
    /\ now' = now + SleepSlice
    /\ i' = i + 1
    /\ slices_after_stop' =
           IF stop_requested THEN slices_after_stop + 1 ELSE slices_after_stop
    /\ pc' = "sleep_check"
    /\ UNCHANGED <<args, stop_requested, registry, counters, storage,
                   next_plot_time, collected_data, current_nodes,
                   telemetry_collected, traceroutes_collected, traceroute_hops,
                   discovery_ok, newly_completed, stop_at,
                   final_reports, final_saves>>
    /\ UNCHANGED <<unified, faults>>

\* ExceptHandler when the caught exception ends the loop like a break
ExceptHandlerTerminates ==
    /\ pc = "except"
    /\ now + ExceptPause <= MaxTime
    /\ now' = now + ExceptPause
    /\ current_nodes' = {}
    /\ telemetry_collected' = 0
    /\ traceroutes_collected' = 0
    /\ traceroute_hops' = 0
    /\ pc' = "final_plot"
    /\ UNCHANGED <<args, stop_requested, registry, counters, storage,
                   next_plot_time, collected_data, i, observed>>
    /\ UNCHANGED <<unified, faults>>

\* ExceptHandler when the sample counts of the run are discarded with the
\* failed cycle
ExceptHandlerDropsCounts ==
    /\ pc = "except"
    /\ now + ExceptPause <= MaxTime
    /\ now' = now + ExceptPause
    /\ current_nodes' = {}
    /\ telemetry_collected' = 0
    /\ traceroutes_collected' = 0
    /\ traceroute_hops' = 0
    /\ node_telemetry_count' = EmptyDict
    /\ pc' = "while"
    /\ UNCHANGED <<args, stop_requested, discovered_nodes, active_nodes,
                   completed_nodes, node_last_seen, node_completion_time,
                   counters, storage, next_plot_time, collected_data, i,
                   observed>>
    /\ UNCHANGED <<unified, faults>>

\* run, lines 329-331
ExceptHandler ==
    /\ pc = "except"
    /\ now + ExceptPause <= MaxTime
    /\ now' = now + ExceptPause
    /\ current_nodes' = {}
    /\ telemetry_collected' = 0
    /\ traceroutes_collected' = 0
    /\ traceroute_hops' = 0
    /\ pc' = "while"
    /\ UNCHANGED <<args, stop_requested, registry, counters, storage,
                   next_plot_time, collected_data, i, observed>>
    /\ UNCHANGED <<unified, faults>>

\* FinalPlot with the call of line 335 left out
FinalPlotSkipped ==
    /\ pc = "final_plot"
    /\ pc' = "final_save"
    /\ UNCHANGED <<now, args, stop_requested, registry, counters, storage,
                   locals, observed>>
    /\ UNCHANGED <<unified, faults>>

\* run, lines 333-335
FinalPlot ==
    /\ pc = "final_plot"
    /\ RunPlotting("final")
    /\ final_reports' = final_reports + 1
    /\ pc' = IF PlottingRaises("final" \in failed_reports')
             THEN "stopped" ELSE "final_save"
    /\ UNCHANGED <<now, args, stop_requested, registry, counters,
                   tele_rows, trace_rows, stats_json, locals, discovery_ok,
                   newly_completed, stop_at, slices_after_stop, final_saves>>
    /\ UNCHANGED <<unified, faults>>

\* run, lines 337-342
FinalSave ==
    /\ pc = "final_save"
    /\ SaveStats
    /\ final_saves' = final_saves + 1
    /\ pc' = "stopped"
    /\ UNCHANGED <<now, args, stop_requested, registry, counters,
                   tele_rows, trace_rows, iter_reports, failed_reports,
                   locals, discovery_ok,
                   newly_completed, stop_at, slices_after_stop,
                   final_reports>>
    /\ UNCHANGED <<unified, faults>>

\* --------------------------------- actions of UnifiedMeshtasticLogger
\* _signal_handler, lines 87-90
UnifiedSignalHandler ==
    /\ u_pc # "exited"
    /\ u_stop_requested' = TRUE
    /\ UNCHANGED <<u_pc, once, total_tries, stats, slice, exit_status>>
    /\ UNCHANGED vars

\* run, lines 401-411, without --discover
UnifiedRunStart ==
    /\ u_pc = "run"
    /\ u_pc' = "while"
    /\ UNCHANGED <<once, u_stop_requested, total_tries, stats, slice,
                   exit_status>>
    /\ UNCHANGED vars

\* run, line 414: while not self.stop_requested
UnifiedWhileTest ==
    /\ u_pc = "while"
    /\ IF u_stop_requested
       THEN u_pc' = "final_stats"
       ELSE /\ total_tries < MaxTries
            /\ u_pc' = "cycle"
    /\ UNCHANGED <<once, u_stop_requested, total_tries, stats, slice,
                   exit_status>>
    /\ UNCHANGED vars

\* how the try block of _run_cycle ends: at the return of line 344, at
\* its last statement, or with an exception (append_row, lines 216 and
\* 267-272, raises OSError when the CSV file cannot be written)
CycleOutcomes == {"no_targets", "completed", "error"}

\* _run_cycle, lines 328-373, as called at line 416.  The handler of
\* lines 369-373 counts the error and re-raises it under --once.
RunCycle ==
    /\ u_pc = "cycle"
    /\ total_tries' = total_tries + 1
    /\ \E outcome \in CycleOutcomes :
        CASE outcome = "no_targets" ->
                 /\ stats' = stats
                 /\ u_pc' = "after_cycle"
          [] outcome = "completed" ->
                 /\ stats' = [stats EXCEPT !.cycles_completed = @ + 1]
                 /\ u_pc' = "after_cycle"
          [] outcome = "error" ->
                 /\ stats' = [stats EXCEPT !.errors_encountered = @ + 1]
                 /\ u_pc' = IF once THEN "run_except" ELSE "after_cycle"
    /\ UNCHANGED <<once, u_stop_requested, slice, exit_status>>
    /\ UNCHANGED vars

\* run, lines 418-423
UnifiedAfterCycle ==
    /\ u_pc = "after_cycle"
    /\ u_pc' = IF once THEN "final_stats"
              ELSE IF u_stop_requested THEN "while" ELSE "sleep_check"
    /\ slice' = 0
    /\ UNCHANGED <<once, u_stop_requested, total_tries, stats,
                   exit_status>>
    /\ UNCHANGED vars

\* run, lines 424-426: loop head of the sliced sleep and its flag test
UnifiedSleepCheck ==
    /\ u_pc = "sleep_check"
    /\ u_pc' = IF slice < UnifiedSlices /\ ~u_stop_requested
              THEN "sleeping" ELSE "while"
    /\ UNCHANGED <<once, u_stop_requested, total_tries, stats, slice,
                   exit_status>>
    /\ UNCHANGED vars

\* run, line 427: time.sleep(0.1)
UnifiedSleep ==
    /\ u_pc = "sleeping"
    /\ slice' = slice + 1
    /\ u_pc' = "sleep_check"
    /\ UNCHANGED <<once, u_stop_requested, total_tries, stats,
                   exit_status>>
    /\ UNCHANGED vars

\* run, lines 432-438: except Exception
UnifiedRunExcept ==
    /\ u_pc = "run_except"
    /\ stats' = [stats EXCEPT !.errors_encountered = @ + 1]
    /\ u_pc' = IF once THEN "final_stats" ELSE "while"
    /\ UNCHANGED <<once, u_stop_requested, total_tries, slice,
                   exit_status>>
    /\ UNCHANGED vars

\* run, lines 440-441, returns; main, lines 543-544, returns 0 and line
\* 558 hands it to sys.exit
UnifiedReturn ==
    /\ u_pc = "final_stats"
    /\ exit_status' = 0
    /\ u_pc' = "exited"
    /\ UNCHANGED <<once, u_stop_requested, total_tries, stats, slice>>
    /\ UNCHANGED vars

NextUnified ==
    \/ UnifiedSignalHandler
    \/ UnifiedRunStart
    \/ UnifiedWhileTest
    \/ RunCycle
    \/ UnifiedAfterCycle
    \/ UnifiedSleepCheck
    \/ UnifiedSleep
    \/ UnifiedRunExcept
    \/ UnifiedReturn

\* UnifiedMeshtasticLogger run with and without --once; the
\* AutoMeshtasticLogger is constructed for one command line and not run
InitUnified ==
    /\ Start({CHOOSE a \in Args : TRUE})
    /\ StartUnified(BOOLEAN)
    /\ faults = FALSE
SpecUnified == InitUnified /\ [][NextUnified]_<<vars, unified>>

Next ==
    \/ SignalHandler
    \/ RunStart
    \/ WhileTest
    \/ DiscoverStep
    \/ CollectTelemetry
    \/ CollectTraceroute
    \/ UpdateCompletion
    \/ SaveStatsStep
    \/ AfterCycle
    \/ SleepCheck
    \/ Sleep
    \/ ExceptHandler
    \/ FinalPlot
    \/ FinalSave

Spec == Init /\ [][Next]_vars

\* the command lines of the runs in which the report process and the
\* write of run_stats.json may fail
ArgsFaults ==
    [min_telemetry_count : {1},
     completion_timeout : {1},
     stop_when_all_complete : {FALSE},
     no_trace : BOOLEAN,
     plot_every_cycle : {TRUE},
     plot_on_completion : {TRUE},
     interval : {Interval},
     plot_interval : {PlotInterval}]

InitFaults == Start(ArgsFaults) /\ StartUnified({FALSE}) /\ faults = TRUE

\* the same program with failing report process and snapshot write
SpecFaults == InitFaults /\ [][Next]_vars

\* the same program started with a command line of ArgsOptions
SpecOptions == InitOptions /\ [][Next]_vars

TypeOK ==
    /\ pc \in {"run", "while", "discover", "telemetry", "traceroute",
               "completion", "save_stats", "after_cycle", "sleep_check",
               "sleeping", "except", "final_plot", "final_save", "stopped"}
    /\ now \in 0..MaxTime
    /\ discovered_nodes \subseteq Nodes
    /\ active_nodes \subseteq Nodes
    /\ completed_nodes \subseteq Nodes
    /\ total_cycles \in 0..MaxCycles

\* ================================================================ claims
\* elapsed time since the node was last seen in a discovery result
Elapsed(node) == now - node_last_seen[node]
SampleCount(node) == Get(node_telemetry_count, node, 0)
Nil == "nil"
CompletionTime(node) == Get(node_completion_time, node, Nil)

\* position in the order unknown < Discovered < Active < Completed
Rank(node, disc, act, comp) ==
    IF node \in comp THEN 3
    ELSE IF node \in act THEN 2
    ELSE IF node \in disc THEN 1
    ELSE 0

\* C1: whenever the completion decision is evaluated for the active nodes,
\* it is true exactly for the nodes with at least min_telemetry_count
\* samples whose last_seen lies at least completion_timeout back.
C1_IsCompleteIffCountAndTimeout ==
    pc = "completion" =>
        \A node \in active_nodes :
            CheckNodeCompletion(node, now) <=>
                /\ SampleCount(node) >= args.min_telemetry_count
                /\ Elapsed(node) >= args.completion_timeout

\* C2: a step that moves a node to completed_nodes finds it with at least
\* min_telemetry_count samples and at least completion_timeout since its
\* last_seen.
C2_CompletionNeedsBoth ==
    [][\A node \in completed_nodes' \ completed_nodes :
          /\ SampleCount(node) >= args.min_telemetry_count
          /\ node \in DOMAIN node_last_seen
          /\ Elapsed(node) >= args.completion_timeout]_vars

\* a completion update moved one node to completed and kept back a node
\* that was silent for longer than the timeout but lacks samples
C2_Witness ==
    /\ pc = "save_stats"
    /\ newly_completed # {}
    /\ \E node \in active_nodes :
        /\ SampleCount(node) < args.min_telemetry_count
        /\ Elapsed(node) > args.completion_timeout

\* C3: the lifecycle position of a node never decreases, a completed node
\* is never active again, and recording a discovery result that contains a
\* completed node changes of that node only node_last_seen.
C3_LifecycleMonotonic ==
    [][/\ \A node \in Nodes :
            Rank(node, discovered_nodes', active_nodes', completed_nodes')
                >= Rank(node, discovered_nodes, active_nodes, completed_nodes)
       /\ \A node \in completed_nodes :
            /\ node \notin active_nodes'
            /\ node \in completed_nodes'
       /\ pc = "discover" =>
            \A node \in completed_nodes \cap current_nodes' :
                /\ node_last_seen'[node] = now'
                /\ SampleCount(node)' = SampleCount(node)
                /\ CompletionTime(node)' = CompletionTime(node)]_vars

\* a completed node came back in a later discovery result
C3_Witness ==
    /\ pc = "telemetry"
    /\ \E node \in current_nodes \cap completed_nodes :
        /\ node \notin active_nodes
        /\ node_last_seen[node] > node_completion_time[node]

\* C4: the node list handed to collect_telemetry_batch and to
\* collect_traceroute_batch is the active set and holds no completed node.
C4_BatchIsActiveSet ==
    (pc = "telemetry" \/ (pc = "traceroute" /\ ~args.no_trace)) =>
        /\ current_nodes = active_nodes
        /\ current_nodes \cap completed_nodes = {}

\* C5: a node of the cycle's discovery result is not completed in that
\* cycle (completion_timeout > 0).
C5_SeenNodeNotCompletedSameCycle ==
    [][args.completion_timeout > 0 =>
          \A node \in completed_nodes' \ completed_nodes :
              node \notin current_nodes]_vars

\* C6 as stated: a cycle whose discovery fails returns False and changes
\* neither the registry nor the run statistics counters.
C6_FailedDiscoveryChangesNothing ==
    [][(pc = "discover" /\ ~discovery_ok') =>
          /\ pc' = "after_cycle"
          /\ collected_data' = FALSE
          /\ UNCHANGED <<registry, counters>>]_vars

\* C6 amended: a cycle whose discovery fails returns False and changes
\* neither the registry, the telemetry and traceroute counters, the stored
\* rows nor the snapshot; total_cycles is incremented by one.
C6_FailedDiscoveryCountsCycleOnly ==
    [][(pc = "discover" /\ ~discovery_ok') =>
          /\ pc' = "after_cycle"
          /\ collected_data' = FALSE
          /\ total_cycles' = total_cycles + 1
          /\ UNCHANGED <<registry, total_telemetry_collected,
                         total_traceroutes, tele_rows, trace_rows,
                         stats_json>>]_vars

\* the second cycle's discovery failed with a registry that is not empty
C6_Witness ==
    /\ pc = "after_cycle"
    /\ ~discovery_ok
    /\ total_cycles = 2
    /\ active_nodes # {}
    /\ \E node \in active_nodes : SampleCount(node) > 0

\* C7: with stop_when_all_complete, once a cycle leaves the active set
\* empty and the completed set non-empty, the loop neither sleeps nor
\* starts another cycle, and the report of line 335 is generated exactly
\* once, after the loop.
C7_StopWhenAllComplete ==
    (args.stop_when_all_complete /\ active_nodes = {} /\ completed_nodes # {})
        => /\ pc \in {"save_stats", "after_cycle",
                      "final_plot", "final_save", "stopped"}
           /\ final_reports = IF pc \in {"final_save", "stopped"} THEN 1 ELSE 0

\* the run ended because every node completed, without a stop request
C7_Witness ==
    /\ pc = "stopped"
    /\ args.stop_when_all_complete
    /\ ~stop_requested
    /\ active_nodes = {}
    /\ completed_nodes # {}
    /\ final_reports = 1

\* C8: the loop is left only on the stop flag or on stop_when_all_complete;
\* then come exactly one final report, then exactly one final statistics
\* save, then Stopped, from where no step is taken.
C8_FinalReportSaveThenStopped ==
    [][/\ (pc' = "final_plot" /\ pc # "final_plot") =>
            \/ pc = "while" /\ stop_requested
            \/ /\ pc = "after_cycle"
               /\ args.stop_when_all_complete
               /\ active_nodes = {}
               /\ completed_nodes # {}
       /\ pc' \in {"final_plot"} => (final_reports' = 0 /\ final_saves' = 0)
       /\ pc' = "final_save" =>
            /\ pc \in {"final_plot", "final_save"}
            /\ final_reports' = 1
            /\ final_saves' = 0
       /\ pc' = "stopped" =>
            (pc = "final_save" /\ final_reports' = 1 /\ final_saves' = 1
                /\ stats_json' = total_cycles)
       /\ pc' \notin {"final_plot", "final_save", "stopped"} =>
            (final_reports' = 0 /\ final_saves' = 0)
       /\ pc \in {"final_plot", "final_save"} =>
            UNCHANGED <<registry, counters, tele_rows, trace_rows>>
       /\ pc # "stopped"]_vars

\* the run was stopped by a signal and went through the final report and save
C8_Witness ==
    /\ pc = "stopped"
    /\ stop_requested
    /\ final_reports = 1
    /\ final_saves = 1
    /\ total_cycles > 0

\* C9: when the stop flag is set during the inter-cycle sleep, at most one
\* more sleep slice ends, and no collection cycle is started afterwards.
C9_StopDuringSleep ==
    stop_at \in InSleep =>
        /\ slices_after_stop <= 1
        /\ pc \in InSleep \cup {"while", "final_plot", "final_save", "stopped"}
        /\ pc = "sleeping" => slices_after_stop = 0

\* the flag was set during the first slice of the sleep, the slice ended
\* and the loop went to shutdown without sleeping the rest of the interval
C9_Witness ==
    /\ stop_at = "sleeping"
    /\ slices_after_stop = 1
    /\ i < args.interval
    /\ pc = "stopped"

\* the position that follows a position of the cycle
CycleSucc(p) ==
    CASE p = "discover" -> {"telemetry", "after_cycle"}
      [] p = "telemetry" -> {"traceroute"}
      [] p = "traceroute" -> {"completion", "except"}
      [] p = "completion" -> {"save_stats"}
      [] p = "save_stats" -> {"after_cycle"}
      [] OTHER -> {}

\* C10: the step that sets the stop flag changes nothing else, and from
\* every position of a cycle the control flow goes on to the next position
\* of the cycle whether or not the flag is set; the flag is acted on only
\* at the loop head and in the sleep.
C10_StopDoesNotAbortCycle ==
    [][/\ (stop_requested' # stop_requested) =>
            /\ stop_requested'
            /\ pc' = pc
            /\ UNCHANGED <<registry, counters, storage, locals>>
       /\ (pc \in InCycle /\ pc' # pc) => pc' \in CycleSucc(pc)
       /\ (pc \in InCycle /\ stop_requested /\ pc' = "after_cycle"
            /\ pc = "save_stats") => stats_json' = total_cycles
       /\ (pc' = "final_plot" /\ pc # "final_plot") =>
            pc \in {"while", "after_cycle"}]_vars

\* the flag was set before the telemetry of the only cycle was collected;
\* the cycle still appended a row, counted it, evaluated completion and
\* wrote its snapshot before the loop ended
C10_Witness ==
    /\ stop_at = "telemetry"
    /\ pc = "final_plot"
    /\ total_cycles = 1
    /\ \E node \in Nodes : tele_rows[node] = 1 /\ SampleCount(node) = 1
    /\ total_telemetry_collected > 0
    /\ stats_json # NoFile
    /\ stats_json = 1

\* C11: an exception escaping a collection cycle does not end the run loop.
\* The step that raises and the handler keep the node registry; from the
\* handler the only way on is the loop test, reached after the pause of
\* ExceptPause seconds; and the loop test starts another cycle unless the
\* stop flag is set.
C11_CycleErrorIsRetried ==
    [][/\ (pc = "except" \/ pc' = "except") => registry' = registry
       /\ pc = "except" =>
              \/ pc' = "except"
              \/ pc' = "while" /\ now' = now + ExceptPause
       /\ (pc = "while" /\ ~stop_requested) => pc' \in {"while", "discover"}
      ]_vars

\* a second cycle runs without a sleep in between (i = 0 and no stop), so
\* it was started by the handler, and a sample counted before the
\* exception is still there
C11_Witness ==
    /\ pc = "telemetry"
    /\ total_cycles = 2
    /\ i = 0
    /\ ~stop_requested
    /\ now >= ExceptPause
    /\ \E n \in Nodes : SampleCount(n) >= 1

\* C15: a node has a completion time recorded exactly when it is completed:
\* the keys of node_completion_time are the members of completed_nodes.
C15_CompletionTimeIffCompleted ==
    DOMAIN node_completion_time = completed_nodes

\* one node is completed while another one is still active
C15_Witness ==
    /\ completed_nodes # {}
    /\ active_nodes # {}
    /\ \E n \in completed_nodes : node_completion_time[n] <= now

\* C16: a completion time, once recorded, never changes or disappears; a
\* new one is recorded only by the completion update, for a node that was
\* active and becomes completed, with the time of that update; and the
\* completion update leaves every node that is not active (completed or
\* unknown) where it was.
C16_CompletionTimeSetOnce ==
    [][/\ \A n \in DOMAIN node_completion_time :
              /\ n \in DOMAIN node_completion_time'
              /\ node_completion_time'[n] = node_completion_time[n]
       /\ \A n \in (DOMAIN node_completion_time') \ DOMAIN node_completion_time :
              /\ pc = "completion"
              /\ n \in active_nodes
              /\ n \in completed_nodes' \ completed_nodes
              /\ node_completion_time'[n] = now
       /\ pc = "completion" =>
              \A n \in Nodes \ active_nodes :
                  /\ n \in completed_nodes' <=> n \in completed_nodes
                  /\ n \notin active_nodes'
      ]_vars

\* a completion update has just run over a node that was completed in an
\* earlier cycle and still meets the completion condition
C16_Witness ==
    /\ pc = "save_stats"
    /\ \E n \in completed_nodes \ newly_completed :
           /\ CheckNodeCompletion(n, now)
           /\ node_completion_time[n] < now

\* C17: the sample count of a node never decreases and its entry never
\* disappears, whatever the step.
C17_SampleCountMonotonic ==
    [][\A n \in DOMAIN node_telemetry_count :
           /\ n \in DOMAIN node_telemetry_count'
           /\ node_telemetry_count'[n] >= node_telemetry_count[n]
      ]_vars

\* the cycle before this one failed part-way (it was left without a sleep,
\* i = 0 and no stop); a node counted in it is absent from this cycle's
\* discovery and another one has been counted a second time
C17_Witness ==
    /\ pc = "traceroute"
    /\ total_cycles = 2
    /\ i = 0
    /\ ~stop_requested
    /\ \E n \in Nodes \ current_nodes : SampleCount(n) >= 1
    /\ \E m \in current_nodes : SampleCount(m) = 2

\* C19: a step generates a completion report exactly when it moves at
\* least one node to completed_nodes and plot_on_completion is set; and a
\* loop iteration whose cycle has ended (by return or by exception) holds
\* a completion report exactly when the cycle completed at least one node
\* and plot_on_completion is set.
C19_CompletionReportIffNewlyCompleted ==
    [][/\ ("completion" \in iter_reports' /\ "completion" \notin iter_reports)
              <=> (completed_nodes' \ completed_nodes # {}
                   /\ args.plot_on_completion)
       /\ pc \in {"after_cycle", "except"} =>
              ("completion" \in iter_reports
                   <=> (newly_completed # {} /\ args.plot_on_completion))
      ]_vars

\* a cycle has just completed a node and generated the report for it, in
\* an iteration that follows one without a completion
C19_Witness ==
    /\ pc = "save_stats"
    /\ total_cycles = 2
    /\ newly_completed # {}
    /\ newly_completed = completed_nodes
    /\ iter_reports = {"completion"}

\* C12: under --once an error raised during the cycle makes the process
\* exit with a non-zero status.
C12_OnceErrorExitsNonZero ==
    (once /\ u_pc = "exited" /\ stats.errors_encountered > 0)
        => exit_status # 0

\* C13: restoring the snapshot taken of a reachable state gives back the
\* registry and the run statistics of that state: node ids, lifecycle
\* sets, sample counts, last-seen and completion times, counters.
C13_RestoreOfSnapshotIsRegistry ==
    Restore(Snapshot) = RegistryState

\* C14: in every loop iteration in which the report timer has expired a
\* report is generated: by the timer test when the cycle returned (with or
\* without rows, or with a failed discovery), and also in an iteration
\* whose cycle raised an error.
C14_ReportTimerEveryIteration ==
    [][/\ (pc = "after_cycle" /\ pc' # "after_cycle" /\ now >= next_plot_time)
              => "loop" \in iter_reports'
       /\ (pc = "except" /\ now >= next_plot_time) => iter_reports # {}
      ]_vars

\* C18 as stated: a step never moves a node without a sample to
\* completed_nodes, whatever the command line.
C18_NeverSampledNeverCompleted ==
    [][\A n \in completed_nodes' \ completed_nodes : SampleCount(n) >= 1]_vars

\* C18 amended: with a min_telemetry_count of at least 1, a step never
\* moves a node without a sample to completed_nodes.
C18_NeverSampledNeverCompletedMinOne ==
    [][\A n \in completed_nodes' \ completed_nodes :
           args.min_telemetry_count >= 1 => SampleCount(n) >= 1]_vars

\* a completion update has just left active a node without a sample that
\* has been silent for longer than completion_timeout
C18_Witness ==
    /\ pc = "save_stats"
    /\ args.min_telemetry_count >= 1
    /\ \E n \in active_nodes :
           /\ SampleCount(n) = 0
           /\ Elapsed(n) > args.completion_timeout

\* C20: with plot_every_cycle, a cycle that wrote at least one row is
\* followed in the same loop iteration by a report, whether the cycle
\* returned or raised after writing; telemetry_collected is the number of
\* telemetry rows the cycle wrote, and the value the cycle returns is true
\* exactly when it wrote at least one row.
C20_EveryCycleReportAfterRows ==
    [][/\ (pc = "telemetry" /\ pc' = "traceroute") =>
              telemetry_collected' =
                  Cardinality({n \in Nodes : tele_rows'[n] = tele_rows[n] + 1})
       /\ (pc = "save_stats" /\ pc' = "after_cycle") =>
              (collected_data'
                   <=> telemetry_collected + traceroutes_collected > 0)
       /\ (pc = "after_cycle" /\ pc' # "after_cycle"
              /\ args.plot_every_cycle /\ collected_data)
              => "loop" \in iter_reports'
       /\ (pc = "except" /\ args.plot_every_cycle
              /\ telemetry_collected + traceroutes_collected > 0)
              => "loop" \in iter_reports
      ]_vars

\* C21: a step in which a report fails has the effect it has when the
\* report succeeds.  A failed completion report leaves the registry as the
\* completion update made it and the cycle goes on to the snapshot; a
\* failed loop report leaves the registry alone and the loop goes on to
\* the sleep (or to the break of stop_when_all_complete); a failed final
\* report leaves the registry alone and the final save follows.
C21_FailedReportContained ==
    [][\A kind \in failed_reports' \ failed_reports :
           /\ discovered_nodes' = discovered_nodes
           /\ node_last_seen' = node_last_seen
           /\ node_telemetry_count' = node_telemetry_count
           /\ kind = "completion" =>
                  /\ pc = "completion" /\ pc' = "save_stats"
                  /\ newly_completed' =
                         {n \in active_nodes : CheckNodeCompletion(n, now)}
                  /\ active_nodes' = active_nodes \ newly_completed'
                  /\ completed_nodes' = completed_nodes \cup newly_completed'
                  /\ node_completion_time' =
                         PutAll(node_completion_time, newly_completed', now)
           /\ kind = "loop" =>
                  /\ pc = "after_cycle"
                  /\ registry' = registry
                  /\ pc' = IF /\ args.stop_when_all_complete
                              /\ active_nodes = {}
                              /\ completed_nodes # {}
                           THEN "final_plot" ELSE "sleep_check"
           /\ kind = "final" =>
                  /\ pc = "final_plot" /\ pc' = "final_save"
                  /\ registry' = registry
      ]_vars

\* the completion report and the loop report of one iteration have both
\* failed and the loop is in its sleep, no stop requested
C21_Witness ==
    /\ pc = "sleeping"
    /\ failed_reports = {"completion", "loop"}
    /\ completed_nodes # {}
    /\ ~stop_requested

\* C22: a cycle whose write of run_stats.json fails (the file does not
\* hold the snapshot of this cycle afterwards) leaves the registry and the
\* counters as they are, returns the value it returns otherwise, and hands
\* control back to the loop; a failed final save changes nothing either.
C22_FailedSaveSwallowed ==
    [][/\ (pc = "save_stats" /\ pc' # "save_stats"
              /\ stats_json' # total_cycles) =>
              /\ registry' = registry
              /\ counters' = counters
              /\ collected_data' =
                     (telemetry_collected > 0 \/ traceroutes_collected > 0)
              /\ pc' = "after_cycle"
       /\ (pc = "final_save" /\ pc' # "final_save"
              /\ stats_json' # total_cycles) =>
              /\ registry' = registry
              /\ counters' = counters
              /\ pc' = "stopped"
      ]_vars

\* the write of the first cycle failed, the cycle had collected a sample,
\* and the second cycle is running on the registry held in memory
C22_Witness ==
    /\ pc = "telemetry"
    /\ total_cycles = 2
    /\ stats_json = Corrupt
    /\ ~stop_requested
    /\ \E n \in Nodes : SampleCount(n) >= 1

\* C23: the stop flag, once true, is true after every step; and a step
\* that changes the flag sets it to true and is not a step of the main
\* control flow (the position in run() stays where it is).
C23_StopFlagOnlySet ==
    [][/\ stop_requested => stop_requested'
       /\ stop_requested' # stop_requested =>
              (stop_requested' = TRUE /\ pc' = pc)
      ]_vars

\* the flag was set while a cycle was collecting telemetry and is still
\* set when the run has ended
C23_Witness ==
    /\ pc = "stopped"
    /\ stop_at = "telemetry"
    /\ stop_requested
    /\ total_cycles >= 1

\* C24: a cycle that returns, its discovery not having failed, leaves no
\* node active that has its min_telemetry_count samples and was last seen
\* more than completion_timeout ago: the first cycle that runs after the
\* timeout of a quiet node completes it, also when the discovery of that
\* cycle finds no node at all.
C24_QuietNodeCompletedByNextCycle ==
    [][(pc \in InCycle /\ pc' = "after_cycle" /\ discovery_ok') =>
           \A n \in active_nodes' :
               ~ /\ Get(node_telemetry_count', n, 0) >= args.min_telemetry_count
                 /\ n \in DOMAIN node_last_seen'
                 /\ now' - node_last_seen'[n] > args.completion_timeout
      ]_vars

\* C25: a cycle whose discovery succeeded, with or without nodes, and
\* that returns with a node still active has gone through the completion
\* update (it ends from the snapshot step that follows it), and the completion
\* update moves exactly the active nodes for which the completion
\* decision holds from active_nodes to completed_nodes.
C25_EveryCycleEvaluatesCompletion ==
    [][/\ (/\ pc \in InCycle /\ pc' = "after_cycle"
           /\ discovery_ok' /\ active_nodes' # {}) => pc = "save_stats"
       /\ (pc = "completion" /\ pc' # "completion") =>
              LET done == {n \in active_nodes : CheckNodeCompletion(n, now)}
              IN  /\ active_nodes' = active_nodes \ done
                  /\ completed_nodes' = completed_nodes \cup done
      ]_vars

\* C26: active_nodes and completed_nodes are disjoint and together make
\* up discovered_nodes in every state; no step removes a node from
\* discovered_nodes, and a node that leaves active_nodes is in
\* completed_nodes after the step.
C26_ActiveCompletedPartition ==
    [][/\ active_nodes' \cap completed_nodes' = {}
       /\ active_nodes' \cup completed_nodes' = discovered_nodes'
       /\ discovered_nodes \subseteq discovered_nodes'
       /\ (active_nodes \ active_nodes') \subseteq completed_nodes'
      ]_vars

\* a completed node is found again by discovery, next to an active one
C26_Witness ==
    /\ pc = "telemetry"
    /\ current_nodes \cap completed_nodes # {}
    /\ active_nodes # {}

\* C27: in every state the sample count of each node equals the number
\* of telemetry rows appended for it during the run, also after a
\* traceroute logging error, a failed report or a failed snapshot later
\* in the same cycle.
C27_CountEqualsRows ==
    \A n \in Nodes : SampleCount(n) = tele_rows[n]

\* the exception handler of run has ended a cycle that had appended a row
C27_Witness ==
    /\ pc = "while"
    /\ total_cycles = 1
    /\ stats_json = NoFile
    /\ \E n \in Nodes : tele_rows[n] = 1 /\ SampleCount(n) = 1

C29_SnapshotBeforeCompletionReport ==
    [][("completion" \in iter_reports' /\ "completion" \notin iter_reports) =>
           stats_json' = total_cycles'
      ]_vars

\* C30: a traceroute step whose batch returned hops appends one row per
\* returned hop to traceroute.csv and goes on to the completion update.
C30_OneRowPerHopThenCompletion ==
    [][(pc = "traceroute" /\ pc' # "traceroute" /\ traceroute_hops' > 0) =>
           /\ trace_rows' = trace_rows + traceroute_hops'
           /\ pc' = "completion"
      ]_vars
====
